---------------------------- MODULE Spec2Model ----------------------------
(***************************************************************************)
(* A model of jetbrains_sync.py: the sync state store (load_synced_data,   *)
(* save_synced_data), the asset publisher (delete_existing_asset,          *)
(* retry_upload), the release manager (get_or_create_release), the         *)
(* artifact fetcher (download_file) and the orchestrator (main).           *)
(*                                                                         *)
(* Files are sequences of string tokens; a file that does not exist is the *)
(* one-token sequence Absent.  The hosting platform is a set of releases,  *)
(* a set of tag references and, per release, a list of assets.             *)
(***************************************************************************)
EXTENDS Naturals, Sequences, FiniteSets, TLC

VARIABLES
    \* ---- the file system
    primary,        \* SYNCED_DATA_FILE
    backup,         \* SYNCED_DATA_BACKUP
    temp,           \* SYNCED_DATA_FILE + ".tmp"
    workdir,        \* the archives in the working directory, by file name
    \* ---- the hosting platform
    releases,       \* the tags that have a release
    tagrefs,        \* tag -> the commit its reference points at, or NoRef
    head,           \* the commit of the default branch
    assets,         \* tag -> the list of the release's assets
    \* ---- save_synced_data / load_synced_data
    spc,            \* position inside save_synced_data
    sdata,          \* its argument, data
    sold,           \* history: the primary file when save_synced_data was entered
    loaded,         \* what the last load_synced_data returned
    everValid,      \* history: the primary file has held a complete document
    \* ---- retry_upload
    upc,            \* position inside retry_upload
    uargs,          \* its arguments: release, file_path, asset_name
    attempt,        \* the loop variable
    uresult,        \* what it returned
    waits,          \* history: the time.sleep(RETRY_DELAY) calls made
    uploads,        \* history: the release.upload_asset calls made
    uassets0,       \* history: the release's assets when retry_upload was entered
    \* ---- get_or_create_release
    rpc,            \* position inside get_or_create_release
    rtag,           \* its argument tag_name
    rresult,        \* what it returned
    rcalls,         \* history: the API calls made, with their outcomes
    rtag0,          \* history: the tag reference existed when it was entered
    \* ---- download_file
    dpc,            \* position inside download_file
    dpath,          \* its argument save_path
    \* ---- main
    mpc,            \* position inside main
    synced_data,
    has_updates,
    current_version,
    edition,        \* the edition being processed
    asset,          \* ultimate_asset, community_asset
    now,            \* the clock read by datetime.datetime.now()
    gitfiles,       \* the state file and backup as last committed
    files0,         \* history: the state file and backup when the run began
    steps,          \* history: the calls and reports of main in this run, in order
    previous,       \* history: whether a run came before, and what it reported
    did            \* history: the effects of this run

fileVars == <<primary, backup, temp>>
platformVars == <<releases, tagrefs, head, assets>>
storeVars == <<spc, sdata, sold, loaded, everValid>>
uploadVars == <<upc, uargs, attempt, uresult, waits, uploads, uassets0>>
releaseVars == <<rpc, rtag, rresult, rcalls, rtag0>>
downloadVars == <<dpc, dpath>>
mainVars == <<mpc, synced_data, has_updates, current_version, edition, asset,
              now, gitfiles, files0, steps, previous>>

vars == <<fileVars, workdir, platformVars, storeVars, uploadVars, releaseVars,
          downloadVars, mainVars, did>>

\* what the state store leaves alone
nonStoreVars == <<workdir, platformVars, uploadVars, releaseVars, downloadVars,
                  mainVars, did>>

---------------------------------------------------------------------------
(* Bounds of the model and constants of the program.                       *)

\* The vendor page's version tokens are drawn from "2024.1" .. "2024.<MaxVersion>".
MaxVersion == 2
\* A downloaded archive is at most MaxChunks chunks long.
MaxChunks == 2
\* The clock takes the values 1 .. MaxClock.
MaxClock == 2

Versions == {"2024." \o ToString(i) : i \in 1..MaxVersion}
Sizes == 0..MaxChunks

\* extract_product_name(PRODUCT_URL) for .../idea/download/other.html
extract_product_name == "idea"

\* get_product_info()
get_product_info ==
    [ultimate  |-> [name |-> extract_product_name \o "-ultimate",
                    display |-> "Idea Ultimate"],
     community |-> [name |-> extract_product_name \o "-community",
                    display |-> "Idea Community"]]

Editions == {"ultimate", "community"}

\* main: product_name = product_info["ultimate"]["display"]
product_name == get_product_info["ultimate"].display

\* (mutant) the version comes first in the tag
TagOfVersionFirst(ed, version) == version \o "-" \o get_product_info[ed].name

\* main: f"{product_info[edition]['name']}-{current_version}"
TagOf(ed, version) == get_product_info[ed].name \o "-" \o version

\* os.path.basename(downloads[edition]) for the page's Linux links
FilenameOf(ed, version) ==
    (IF ed = "ultimate" THEN "ideaIU-" ELSE "ideaIC-") \o version \o ".tar.gz"

---------------------------------------------------------------------------
(* The state document and its JSON text.                                   *)

\* A document {"products": {...}} is the sequence of its product entries, in
\* the order of the dictionary.  The default of load_synced_data has none.
EmptyDoc == <<>>

\* (mutant) the record is written for the ultimate edition only
SyncRecordOfUltimate(version, at, usize, csize) ==
    [name      |-> product_name,
     version   |-> version,
     synced_at |-> "T" \o ToString(at),
     ultimate  |-> [tag   |-> TagOf("ultimate", version),
                    asset |-> FilenameOf("ultimate", version),
                    size  |-> usize],
     community |-> [tag   |-> "",
                    asset |-> "",
                    size  |-> 0]]

\* main: the SyncRecord written for the product
SyncRecord(version, at, usize, csize) ==
    [name      |-> product_name,
     version   |-> version,
     synced_at |-> "T" \o ToString(at),
     ultimate  |-> [tag   |-> TagOf("ultimate", version),
                    asset |-> FilenameOf("ultimate", version),
                    size  |-> usize],
     community |-> [tag   |-> TagOf("community", version),
                    asset |-> FilenameOf("community", version),
                    size  |-> csize]]

\* (mutant) the asset field is written from the tag
DumpEditionSwapped(ed) ==
    <<"{", "tag", ed.tag, "asset", ed.tag, "size", ToString(ed.size), "}">>

\* the tokens json.dump writes for one edition object
DumpEdition(ed) ==
    <<"{", "tag", ed.tag, "asset", ed.asset, "size", ToString(ed.size), "}">>

\* the tokens json.dump writes for one product entry
DumpEntry(e) ==
    <<e.name, "{", "version", e.version, "synced_at", e.synced_at, "ultimate">>
        \o DumpEdition(e.ultimate) \o <<"community">>
        \o DumpEdition(e.community) \o <<"}">>

\* the number of tokens of one product entry
EntryLen == Len(DumpEntry(SyncRecord("2024.1", 1, 0, 0)))

RECURSIVE DumpEntries(_)
DumpEntries(doc) ==
    IF doc = <<>> THEN <<>>
    ELSE DumpEntry(Head(doc)) \o DumpEntries(Tail(doc))

\* json.dump(data, f, indent=2): the complete text of a document
Dump(doc) == <<"{", "products", "{">> \o DumpEntries(doc) \o <<"}", "}">>

\* A file that does not exist.
Absent == <<"ENOENT">>

Exists(file) == file # Absent

\* int(): the number a size token stands for, or none
IsNumber(tok) == \E n \in Sizes : ToString(n) = tok
NumberOf(tok) == CHOOSE n \in Sizes : ToString(n) = tok

\* json.load on one edition object (8 tokens)
EditionOk(t) ==
    /\ t[1] = "{" /\ t[2] = "tag" /\ t[4] = "asset" /\ t[6] = "size" /\ t[8] = "}"
    /\ IsNumber(t[7])
ParseEdition(t) == [tag |-> t[3], asset |-> t[5], size |-> NumberOf(t[7])]

\* json.load on one product entry (EntryLen tokens)
EntryOk(t) ==
    /\ t[2] = "{" /\ t[3] = "version" /\ t[5] = "synced_at" /\ t[7] = "ultimate"
    /\ EditionOk(SubSeq(t, 8, 15))
    /\ t[16] = "community"
    /\ EditionOk(SubSeq(t, 17, 24))
    /\ t[25] = "}"
ParseEntry(t) ==
    [name      |-> t[1],
     version   |-> t[4],
     synced_at |-> t[6],
     ultimate  |-> ParseEdition(SubSeq(t, 8, 15)),
     community |-> ParseEdition(SubSeq(t, 17, 24))]


\* json.load: whether the text is a complete document ...
ParseOk(text) ==
    LET n == Len(text) IN
    /\ n >= 5
    /\ (n - 5) % EntryLen = 0
    /\ SubSeq(text, 1, 3) = <<"{", "products", "{">>
    /\ SubSeq(text, n - 1, n) = <<"}", "}">>
    /\ \A k \in 1..((n - 5) \div EntryLen) :
          EntryOk(SubSeq(text, 3 + (k - 1) * EntryLen + 1, 3 + k * EntryLen))

\* ... and the document it returns
Parse(text) ==
    [k \in 1..((Len(text) - 5) \div EntryLen) |->
        ParseEntry(SubSeq(text, 3 + (k - 1) * EntryLen + 1, 3 + k * EntryLen))]

\* The file exists and json.load accepts it.
Valid(file) == Exists(file) /\ ParseOk(file)

\* The texts a write that stops early leaves behind: strict prefixes of the
\* text (nothing, the first token, half of it, all but the last token).
Truncations(text) ==
    {SubSeq(text, 1, k) : k \in {0, 1, Len(text) \div 2, Len(text) - 1}}

\* synced_data["products"].get(product_name, {}).get("version")
NoVersion == "None"
StoredVersion(doc) ==
    IF \E k \in 1..Len(doc) : doc[k].name = product_name
    THEN doc[CHOOSE k \in 1..Len(doc) : doc[k].name = product_name].version
    ELSE NoVersion

\* synced_data["products"][product_name] = record
SetRecord(doc, record) ==
    IF \E k \in 1..Len(doc) : doc[k].name = product_name
    THEN [k \in 1..Len(doc) |->
            IF doc[k].name = product_name THEN record ELSE doc[k]]
    ELSE Append(doc, record)

---------------------------------------------------------------------------
(* load_synced_data                                                        *)

\* _load(path): open and json.load raise on a text that is no document
LoadRaises(file) == ~ParseOk(file)

\* (mutant) a damaged primary file gives the default at once
load_without_backup(p, b) ==
    IF Exists(p) /\ ~LoadRaises(p) THEN Parse(p) ELSE EmptyDoc

load_synced_data(p, b) ==
    IF Exists(p)
    THEN IF ~LoadRaises(p) THEN Parse(p)
         ELSE IF Exists(b) /\ ~LoadRaises(b) THEN Parse(b)
         ELSE EmptyDoc
    ELSE EmptyDoc

NotLoaded == [done |-> FALSE, doc |-> EmptyDoc]

---------------------------------------------------------------------------
(* save_synced_data, one action per file operation.  Each operation either *)
(* succeeds or raises; the except clause (lines 272-275) handles a raise.  *)

Saving == spc \in {"open", "dump", "backup", "replace", "except"}
Returned == spc \in {"saved", "failed"}

NoteValid == everValid' = (everValid \/ Valid(primary'))

\* line 262: open(temp_file, 'w') truncates the temp file, or raises
SaveOpen ==
    /\ spc = "open"
    /\ \/ temp' = <<>> /\ spc' = "dump"
       \/ temp' = temp /\ spc' = "except"
    /\ UNCHANGED <<primary, backup, sdata, sold, loaded, everValid>>
    /\ UNCHANGED nonStoreVars

\* line 263: json.dump writes the whole text, or raises part way
SaveDump ==
    /\ spc = "dump"
    /\ \/ temp' = Dump(sdata) /\ spc' = "backup"
       \/ temp' \in Truncations(Dump(sdata)) /\ spc' = "except"
    /\ UNCHANGED <<primary, backup, sdata, sold, loaded, everValid>>
    /\ UNCHANGED nonStoreVars

\* (mutant) the primary file is removed instead of renamed
BackupStepRemove(p, b) == [primary |-> Absent, backup |-> b]

\* lines 266-267: the primary file, when there is one, becomes the backup
BackupStep(p, b) ==
    IF Exists(p) THEN [primary |-> Absent, backup |-> p]
    ELSE [primary |-> p, backup |-> b]

SaveBackup ==
    /\ spc = "backup"
    /\ \/ /\ primary' = BackupStep(primary, backup).primary
          /\ backup' = BackupStep(primary, backup).backup
          /\ spc' = "replace"
       \/ /\ Exists(primary)
          /\ UNCHANGED <<primary, backup>>
          /\ spc' = "except"
    /\ NoteValid
    /\ UNCHANGED <<temp, sdata, sold, loaded>>
    /\ UNCHANGED nonStoreVars

\* line 270: the temp file becomes the primary file
ReplaceStep(t, p) == [temp |-> Absent, primary |-> t]

SaveReplace ==
    /\ spc = "replace"
    /\ \/ /\ primary' = ReplaceStep(temp, primary).primary
          /\ temp' = ReplaceStep(temp, primary).temp
          /\ spc' = "saved"
       \/ /\ UNCHANGED <<primary, temp>>
          /\ spc' = "except"
    /\ NoteValid
    /\ UNCHANGED <<backup, sdata, sold, loaded>>
    /\ UNCHANGED nonStoreVars

\* lines 272-275: the error is printed and the temp file removed
ExceptStep(t) == IF Exists(t) THEN Absent ELSE t

SaveExcept ==
    /\ spc = "except"
    /\ temp' = ExceptStep(temp)
    /\ spc' = "failed"
    /\ UNCHANGED <<primary, backup, sdata, sold, loaded, everValid>>
    /\ UNCHANGED nonStoreVars

\* The process is killed inside save_synced_data; a kill during json.dump
\* leaves whatever part of the text had reached the temp file.
Crash ==
    /\ Saving
    /\ temp' \in (IF spc = "dump" THEN Truncations(Dump(sdata)) ELSE {temp})
    /\ spc' = "crashed"
    /\ UNCHANGED <<primary, backup, sdata, sold, loaded, everValid>>
    /\ UNCHANGED nonStoreVars

save_synced_data == SaveOpen \/ SaveDump \/ SaveBackup \/ SaveReplace \/ SaveExcept

---------------------------------------------------------------------------
(* The hosting platform and the working directory.                         *)

Tags == {TagOf(e, v) : e \in Editions, v \in Versions}
Filenames == {FilenameOf(e, v) : e \in Editions, v \in Versions}

\* RETRY_COUNT = int(os.environ.get('RETRY_COUNT', 3))
RETRY_COUNT == 3

\* The archive the vendor serves under a file name: MaxChunks chunks.
Body(filename) == [k \in 1..MaxChunks |-> filename]

\* None, where an asset is expected
NoAsset == [name |-> "None", content |-> <<>>]

\* ultimate_asset, community_asset before retry_upload has returned
Unbound == [name |-> "unbound", content |-> <<>>]

\* the asset of an earlier publication
OldAsset(name) == [name |-> name, content |-> <<"old">>]

Named(list, name) == {k \in 1..Len(list) : list[k].name = name}

Without(list, k) == SubSeq(list, 1, k - 1) \o SubSeq(list, k + 1, Len(list))

\* what the run has done so far
Note(effect) == did' = did \cup {effect}

---------------------------------------------------------------------------
(* delete_existing_asset and retry_upload                                  *)

nonUploadVars == <<fileVars, workdir, releases, tagrefs, head, storeVars,
                   releaseVars, downloadVars, mainVars>>

\* delete_existing_asset once release.get_assets() has answered: the loop
\* tries asset.delete_asset() on each asset of that name and returns at the
\* first that succeeds; a failed delete is printed and the loop goes on.
\* The lists it can leave: the one found (no delete succeeded) or the one
\* found without one asset of that name.
delete_existing_asset(list, name) ==
    {list} \cup {Without(list, k) : k \in Named(list, name)}

\* (mutant) retry_upload takes the conflict as a success
UploadConflictIsSuccess(list, name, content) ==
    (IF ~Exists(content) THEN {}
     ELSE IF Named(list, name) = {}
     THEN {[assets |-> Append(list, [name |-> name, content |-> content]),
            to |-> "done",
            result |-> [name |-> name, content |-> content]]}
     ELSE {[assets |-> list, to |-> "done",
            result |-> list[CHOOSE k \in Named(list, name) : TRUE]]})
    \cup {[assets |-> list, to |-> "sleep", result |-> NoAsset]}

\* lines 161-177: release.upload_asset and what retry_upload does with its
\* answer.  The platform keeps asset names unique in a release: it stores
\* the file when no asset has the name and answers 422 already_exists
\* otherwise; any call can also fail in another way, and a file that does
\* not exist makes upload_asset raise before anything is sent.
UploadOutcomes(list, name, content) ==
    (IF ~Exists(content) THEN {}
     ELSE IF Named(list, name) = {}
     THEN {[assets |-> Append(list, [name |-> name, content |-> content]),
            to |-> "done",
            result |-> [name |-> name, content |-> content]]}
     ELSE {[assets |-> list, to |-> "conflict", result |-> NoAsset]})
    \cup {[assets |-> list, to |-> "sleep", result |-> NoAsset]}

\* lines 153-158: the loop head and the delete inside the try block;
\* release.get_assets() raising is caught at line 170 or 176
UploadTry ==
    /\ upc = "try"
    /\ \/ /\ upc' = "sleep"
          /\ UNCHANGED <<assets, did>>
       \/ /\ \E list \in delete_existing_asset(assets[uargs.release], uargs.name) :
                /\ assets' = [assets EXCEPT ![uargs.release] = list]
                /\ IF Named(assets[uargs.release], uargs.name) # {}
                   THEN Note("delete_asset")
                   ELSE UNCHANGED did
          /\ upc' = "upload"
    /\ UNCHANGED <<uargs, attempt, uresult, waits, uploads, uassets0>>
    /\ UNCHANGED nonUploadVars

\* lines 161-177
UploadCall ==
    /\ upc = "upload"
    /\ uploads' = uploads + 1
    /\ \E o \in UploadOutcomes(assets[uargs.release], uargs.name,
                                workdir[uargs.path]) :
          /\ assets' = [assets EXCEPT ![uargs.release] = o.assets]
          /\ upc' = o.to
          /\ uresult' = o.result
          /\ Note("upload_asset")
    /\ UNCHANGED <<uargs, attempt, waits, uassets0>>
    /\ UNCHANGED nonUploadVars

\* lines 171-173: the delete inside the except clause; release.get_assets()
\* raising there leaves retry_upload as an exception
UploadConflict ==
    /\ upc = "conflict"
    /\ \/ /\ upc' = "raised"
          /\ UNCHANGED <<assets, did>>
       \/ /\ \E list \in delete_existing_asset(assets[uargs.release], uargs.name) :
                /\ assets' = [assets EXCEPT ![uargs.release] = list]
                /\ IF Named(assets[uargs.release], uargs.name) # {}
                   THEN Note("delete_asset")
                   ELSE UNCHANGED did
          /\ upc' = "sleep"
    /\ UNCHANGED <<uargs, attempt, uresult, waits, uploads, uassets0>>
    /\ UNCHANGED nonUploadVars

\* line 179: whether time.sleep(RETRY_DELAY) follows attempt number a
SleepsAfter(a) == a < RETRY_COUNT - 1

\* lines 179-184: the wait, the next iteration, the return of None
UploadSleep ==
    /\ upc = "sleep"
    /\ waits' = IF SleepsAfter(attempt) THEN waits + 1 ELSE waits
    /\ attempt' = attempt + 1
    /\ upc' = IF attempt + 1 < RETRY_COUNT THEN "try" ELSE "done"
    /\ uresult' = NoAsset
    /\ UNCHANGED <<assets, uargs, uploads, uassets0, did>>
    /\ UNCHANGED nonUploadVars

retry_upload == UploadTry \/ UploadCall \/ UploadConflict \/ UploadSleep

\* a call retry_upload(release, file_path, asset_name)
CallUpload(release, path, name) ==
    /\ upc' = IF 0 < RETRY_COUNT THEN "try" ELSE "done"
    /\ uargs' = [release |-> release, path |-> path, name |-> name]
    /\ attempt' = 0
    /\ uresult' = NoAsset
    /\ waits' = 0
    /\ uploads' = 0
    /\ uassets0' = assets[release]

---------------------------------------------------------------------------
(* get_or_create_release                                                   *)

Commits == {"c1", "c2"}
NoRef == "none"
NoRelease == "None"

nonReleaseVars == <<fileVars, workdir, assets, storeVars, uploadVars,
                    downloadVars, mainVars>>

\* one API call in the history: the operation, how it ended and, for the
\* creation of a tag, the commit it was given
Call(op, out, sha) == [op |-> op, out |-> out, sha |-> sha]
Log(op, out, sha) == rcalls' = Append(rcalls, Call(op, out, sha))

CreationOps == {"create_git_tag_and_release", "create_release", "fallback"}

\* The platform creates a release for a tag that has none, with the tag
\* reference at the default branch's commit when the tag is new.
Created(tag) ==
    /\ tag \notin releases
    /\ releases' = releases \cup {tag}
    /\ tagrefs' = [tagrefs EXCEPT ![tag] = IF @ = NoRef THEN head ELSE @]
    /\ Note("create_release")

\* a call that fails changes nothing but is a call made
Refused(effect) ==
    /\ UNCHANGED <<releases, tagrefs>>
    /\ Note(effect)

\* lines 189-196: repo.get_release(tag_name): the release is returned, a
\* 404 leads on to the creation, any other error leaves the function
ReleaseLookup ==
    /\ rpc = "lookup"
    /\ \/ /\ rtag \in releases
          /\ Log("get_release", "ok", "")
          /\ rresult' = rtag
          /\ rpc' = "done"
       \/ /\ rtag \notin releases
          /\ Log("get_release", "404", "")
          /\ rpc' = "tagcheck"
          /\ UNCHANGED rresult
       \/ /\ Log("get_release", "error", "")
          /\ rpc' = "raised"
          /\ UNCHANGED rresult
    /\ UNCHANGED <<releases, tagrefs, head, rtag, rtag0, did>>
    /\ UNCHANGED nonReleaseVars

\* (mutant) the two branches of the tag check are exchanged
AfterTagCheckSwapped(out) ==
    CASE out = "ok" -> "branch"
      [] out \in {"404", "github_error"} -> "create_direct"
      [] OTHER -> "fallback"

\* lines 202-204, 217: where repo.get_git_ref("tags/...") leads: on to the
\* direct creation when it returns, to the creation of the tag on any
\* GithubException, to the except clause of line 224 on any other error
AfterTagCheck(out) ==
    CASE out = "ok" -> "create_direct"
      [] out \in {"404", "github_error"} -> "branch"
      [] OTHER -> "fallback"

ReleaseTagCheck ==
    /\ rpc = "tagcheck"
    /\ \E out \in (IF tagrefs[rtag] # NoRef THEN {"ok"} ELSE {"404"})
                      \cup {"github_error", "error"} :
          /\ Log("get_git_ref_tag", out, "")
          /\ rpc' = AfterTagCheck(out)
    /\ UNCHANGED <<releases, tagrefs, head, rtag, rresult, rtag0, did>>
    /\ UNCHANGED nonReleaseVars

\* lines 206-207: repo.default_branch and its reference
ReleaseBranch ==
    /\ rpc = "branch"
    /\ \/ /\ Log("get_git_ref_head", "ok", head)
          /\ rpc' = "create_both"
       \/ /\ Log("get_git_ref_head", "error", "")
          /\ rpc' = "fallback"
    /\ UNCHANGED <<releases, tagrefs, head, rtag, rresult, rtag0, did>>
    /\ UNCHANGED nonReleaseVars

\* branch_ref.object.sha, as the last call read it
BranchSha == rcalls[Len(rcalls)].sha

\* lines 208-215: repo.create_git_tag_and_release(..., object=sha)
ReleaseCreateBoth ==
    /\ rpc = "create_both"
    /\ \/ /\ Created(rtag)
          /\ Log("create_git_tag_and_release", "ok", BranchSha)
          /\ rpc' = "refetch"
       \/ /\ Refused("create_release")
          /\ Log("create_git_tag_and_release", "error", BranchSha)
          /\ rpc' = "fallback"
    /\ UNCHANGED <<head, rtag, rresult, rtag0>>
    /\ UNCHANGED nonReleaseVars

\* line 216: return repo.get_release(tag_name)
ReleaseRefetch ==
    /\ rpc = "refetch"
    /\ \/ /\ rtag \in releases
          /\ Log("get_release", "ok", "")
          /\ rresult' = rtag
          /\ rpc' = "done"
       \/ /\ Log("get_release", "error", "")
          /\ rpc' = "fallback"
          /\ UNCHANGED rresult
    /\ UNCHANGED <<releases, tagrefs, head, rtag, rtag0, did>>
    /\ UNCHANGED nonReleaseVars

\* lines 219-223: the tag exists: return repo.create_release(...)
ReleaseCreateDirect ==
    /\ rpc = "create_direct"
    /\ \/ /\ Created(rtag)
          /\ Log("create_release", "ok", "")
          /\ rresult' = rtag
          /\ rpc' = "done"
       \/ /\ Refused("create_release")
          /\ Log("create_release", "error", "")
          /\ rpc' = "fallback"
          /\ UNCHANGED rresult
    /\ UNCHANGED <<head, rtag, rtag0>>
    /\ UNCHANGED nonReleaseVars

\* (mutant) a failed fallback is tried again
AfterFallbackAgain(out) == IF out = "ok" THEN "done" ELSE "fallback"

\* lines 228-235: the fallback's release is returned, its error raised
AfterFallback(out) == IF out = "ok" THEN "done" ELSE "raised"

\* lines 227-235: the fallback repo.create_release(...)
ReleaseFallback ==
    /\ rpc = "fallback"
    /\ \/ /\ Created(rtag)
          /\ Log("fallback", "ok", "")
          /\ rresult' = rtag
          /\ rpc' = AfterFallback("ok")
       \/ /\ Refused("create_release")
          /\ Log("fallback", "error", "")
          /\ rpc' = AfterFallback("error")
          /\ UNCHANGED rresult
    /\ UNCHANGED <<head, rtag, rtag0>>
    /\ UNCHANGED nonReleaseVars

get_or_create_release ==
    \/ ReleaseLookup
    \/ ReleaseTagCheck
    \/ ReleaseBranch
    \/ ReleaseCreateBoth
    \/ ReleaseRefetch
    \/ ReleaseCreateDirect
    \/ ReleaseFallback

\* a call get_or_create_release(repo, tag_name, ...)
CallRelease(tag) ==
    /\ rpc' = "lookup"
    /\ rtag' = tag
    /\ rresult' = NoRelease
    /\ rcalls' = <<>>
    /\ rtag0' = (tagrefs[tag] # NoRef)

---------------------------------------------------------------------------
(* download_file                                                           *)

nonDownloadVars == <<fileVars, platformVars, storeVars, uploadVars, releaseVars,
                     mainVars>>

\* lines 105-107: a file that is already there is taken as downloaded
\* (the return of line 107 is "found", that of line 130 is "done")
DownloadCheck ==
    /\ dpc = "check"
    /\ dpc' = IF Exists(workdir[dpath]) THEN "found" ELSE "get"
    /\ UNCHANGED <<workdir, dpath, did>>
    /\ UNCHANGED nonDownloadVars

\* lines 114-118: the request is sent and the file opened for writing
DownloadGet ==
    /\ dpc = "get"
    /\ Note("download")
    /\ \/ /\ workdir' = [workdir EXCEPT ![dpath] = <<>>]
          /\ dpc' = "stream"
       \/ /\ UNCHANGED workdir
          /\ dpc' = "except"
    /\ UNCHANGED dpath
    /\ UNCHANGED nonDownloadVars

\* lines 120-130: one chunk is written, or the stream breaks
DownloadChunk ==
    /\ dpc = "stream"
    /\ \/ /\ Len(workdir[dpath]) < Len(Body(dpath))
          /\ workdir' = [workdir EXCEPT
                ![dpath] = Append(@, Body(dpath)[Len(@) + 1])]
          /\ dpc' = "stream"
       \/ /\ Len(workdir[dpath]) = Len(Body(dpath))
          /\ UNCHANGED workdir
          /\ dpc' = "done"
       \/ /\ Len(workdir[dpath]) < Len(Body(dpath))
          /\ UNCHANGED workdir
          /\ dpc' = "except"
    /\ UNCHANGED <<dpath, did>>
    /\ UNCHANGED nonDownloadVars

\* (mutant) the except clause leaves the file
KeepPartial(file) == file

\* lines 133-134: if os.path.exists(save_path): os.remove(save_path)
RemovePartial(file) == IF Exists(file) THEN Absent ELSE file

\* lines 131-135: the part written so far is removed and the error raised
DownloadExcept ==
    /\ dpc = "except"
    /\ workdir' = [workdir EXCEPT ![dpath] = RemovePartial(@)]
    /\ IF Exists(workdir[dpath]) THEN Note("remove_partial") ELSE UNCHANGED did
    /\ dpc' = "raised"
    /\ UNCHANGED dpath
    /\ UNCHANGED nonDownloadVars

download_file == DownloadCheck \/ DownloadGet \/ DownloadChunk \/ DownloadExcept

---------------------------------------------------------------------------
(* main                                                                    *)

\* the calls main makes and the reports it prints, as entries of steps
ReleaseStep(tag) == "get_or_create_release " \o tag
DownloadStep(path) == "download_file " \o path
UploadStep(release, path, name) ==
    "retry_upload " \o release \o " " \o path \o " " \o name
SaveStep == "save_synced_data"
CompletedStep == "completed"
ExceptStepOfMain == "except"
CommitStep(version) == "commit_and_push " \o version

Step(s) == steps' = Append(steps, s)

\* the run has made the step s
InSteps(s) == \E k \in 1..Len(steps) : steps[k] = s

\* os.path.getsize(path) if os.path.exists(path) else 0
FileSize(file) == IF Exists(file) THEN Len(file) ELSE 0

\* lines 311-320
MainLoad ==
    /\ mpc = "load"
    /\ loaded' = [done |-> TRUE, doc |-> load_synced_data(primary, backup)]
    /\ synced_data' = load_synced_data(primary, backup)
    /\ has_updates' = FALSE
    /\ mpc' = "parse"
    /\ UNCHANGED <<current_version, edition, asset, now, gitfiles, files0, previous,
                   steps>>
    /\ UNCHANGED <<fileVars, workdir, platformVars, spc, sdata, sold, everValid,
                   uploadVars, releaseVars, downloadVars, did>>

\* lines 324-326: parse_jetbrains_page returns the page's version or raises
MainParse ==
    /\ mpc = "parse"
    /\ \/ /\ \E v \in Versions : current_version' = v
          /\ mpc' = "check"
       \/ /\ UNCHANGED current_version
          /\ mpc' = "except"
    /\ UNCHANGED <<synced_data, has_updates, edition, asset, now, gitfiles, files0,
                   previous, steps>>
    /\ UNCHANGED <<fileVars, workdir, platformVars, storeVars, uploadVars,
                   releaseVars, downloadVars, did>>

\* (mutant) the time of the last sync, not its version, is compared
UpToDateWrongKey(doc, version) ==
    \E k \in 1..Len(doc) :
        doc[k].name = product_name /\ doc[k].synced_at = version

\* line 334: the page's version is the stored one
UpToDate(doc, version) == StoredVersion(doc) = version

\* lines 333-353: the skip, or the start of the ultimate edition;
\* g.get_repo(TARGET_REPO) can raise
MainCheck ==
    /\ mpc = "check"
    /\ \/ /\ UpToDate(synced_data, current_version)
          /\ mpc' = "cleanup"
          /\ UNCHANGED <<has_updates, releaseVars, steps>>
       \/ /\ ~UpToDate(synced_data, current_version)
          /\ has_updates' = TRUE
          /\ mpc' = "release"
          /\ CallRelease(TagOf("ultimate", current_version))
          /\ Step(ReleaseStep(TagOf("ultimate", current_version)))
       \/ /\ ~UpToDate(synced_data, current_version)
          /\ has_updates' = TRUE
          /\ mpc' = "except"
          /\ UNCHANGED <<releaseVars, steps>>
    /\ edition' = "ultimate"
    /\ UNCHANGED <<synced_data, current_version, asset, now, gitfiles, files0,
                   previous>>
    /\ UNCHANGED <<fileVars, workdir, platformVars, storeVars, uploadVars,
                   downloadVars, did>>

\* lines 356-357, 371-372: get_or_create_release returned or raised
MainReleaseReturn ==
    /\ mpc = "release"
    /\ \/ /\ rpc = "done"
          /\ mpc' = "download"
          /\ dpc' = "check"
          /\ dpath' = FilenameOf(edition, current_version)
          /\ Step(DownloadStep(FilenameOf(edition, current_version)))
       \/ /\ rpc = "raised"
          /\ mpc' = "except"
          /\ UNCHANGED <<dpc, dpath, steps>>
    /\ rpc' = "idle"
    /\ rcalls' = <<>>
    /\ rtag0' = FALSE
    /\ UNCHANGED <<rtag, rresult>>
    /\ UNCHANGED <<synced_data, has_updates, current_version, edition, asset, now,
                   gitfiles, files0, previous>>
    /\ UNCHANGED <<fileVars, workdir, platformVars, storeVars, uploadVars, did>>

\* lines 358, 373: download_file returned or raised
MainDownloadReturn ==
    /\ mpc = "download"
    /\ \/ /\ dpc \in {"done", "found"}
          /\ mpc' = "upload"
          /\ CallUpload(rresult, dpath, dpath)
          /\ Step(UploadStep(rresult, dpath, dpath))
       \/ /\ dpc = "raised"
          /\ mpc' = "except"
          /\ UNCHANGED <<uploadVars, steps>>
    /\ dpc' = "idle"
    /\ UNCHANGED dpath
    /\ UNCHANGED <<synced_data, has_updates, current_version, edition, asset, now,
                   gitfiles, files0, previous>>
    /\ UNCHANGED <<fileVars, workdir, platformVars, storeVars, releaseVars, did>>

\* lines 358-368, 373: retry_upload returned or raised; after the ultimate
\* edition comes the community edition
MainUploadReturn ==
    /\ mpc = "upload"
    /\ \/ /\ upc = "done"
          /\ asset' = [asset EXCEPT ![edition] = uresult]
          /\ \/ /\ edition = "ultimate"
                /\ edition' = "community"
                /\ mpc' = "release"
                /\ CallRelease(TagOf("community", current_version))
                /\ Step(ReleaseStep(TagOf("community", current_version)))
             \/ /\ edition = "community"
                /\ mpc' = "update"
                /\ UNCHANGED <<edition, releaseVars, steps>>
       \/ /\ upc = "raised"
          /\ mpc' = "except"
          /\ UNCHANGED <<asset, edition, releaseVars, steps>>
    /\ upc' = "idle"
    /\ attempt' = 0
    /\ uresult' = NoAsset
    /\ waits' = 0
    /\ uploads' = 0
    /\ uassets0' = <<>>
    /\ UNCHANGED uargs
    /\ UNCHANGED <<synced_data, has_updates, current_version, now, gitfiles, files0, previous>>
    /\ UNCHANGED <<fileVars, workdir, platformVars, storeVars, downloadVars, did>>

\* lines 376-389: the record written for the product
UpdatedData ==
    SetRecord(synced_data,
              SyncRecord(current_version, now,
                         FileSize(workdir[FilenameOf("ultimate", current_version)]),
                         FileSize(workdir[FilenameOf("community", current_version)])))

\* lines 376-390: the record is written whatever retry_upload returned,
\* and save_synced_data is called
MainUpdate ==
    /\ mpc = "update"
    /\ synced_data' = UpdatedData
    /\ sdata' = UpdatedData
    /\ sold' = primary
    /\ spc' = "open"
    /\ Note("save")
    /\ Step(SaveStep)
    /\ mpc' = "save"
    /\ UNCHANGED <<loaded, everValid>>
    /\ UNCHANGED <<has_updates, current_version, edition, asset, now, gitfiles, files0, previous>>
    /\ UNCHANGED <<fileVars, workdir, platformVars, uploadVars, releaseVars,
                   downloadVars>>

\* line 392: save_synced_data returned (it raises nothing) and the sync is
\* reported as completed
MainSaveReturn ==
    /\ mpc = "save"
    /\ Returned
    /\ Step(CompletedStep)
    /\ mpc' = "cleanup"
    /\ UNCHANGED <<synced_data, has_updates, current_version, edition, asset, now,
                   gitfiles, files0, previous>>
    /\ UNCHANGED <<fileVars, workdir, platformVars, storeVars, uploadVars,
                   releaseVars, downloadVars, did>>

\* (mutant) the except clause starts the try block again
AfterExceptRetry == "parse"

\* lines 394-397: after the except clause comes the finally block
AfterExcept == "cleanup"

\* lines 394-396: the error is printed
MainExcept ==
    /\ mpc = "except"
    /\ Step(ExceptStepOfMain)
    /\ mpc' = AfterExcept
    /\ UNCHANGED <<synced_data, has_updates, current_version, edition, asset, now,
                   gitfiles, files0, previous>>
    /\ UNCHANGED <<fileVars, workdir, platformVars, storeVars, uploadVars,
                   releaseVars, downloadVars, did>>

\* the archives os.listdir('.') finds
Archives(dir) == {f \in Filenames : Exists(dir[f])}

\* (mutant) only the community archive is removed
AfterCleanupOfCommunity(dir, failing) ==
    [f \in Filenames |->
        IF f \in failing \/ f \notin {FilenameOf("community", v) : v \in Versions}
        THEN dir[f] ELSE Absent]

\* lines 399-405: every *.tar.gz of the directory is removed; a remove
\* that fails (for the files of failing) is printed and leaves the file
AfterCleanup(dir, failing) ==
    [f \in Filenames |-> IF f \in failing THEN dir[f] ELSE Absent]

CleanupStep(failing) ==
    IF failing = {} THEN "cleanup" ELSE "cleanup, os.remove failed"

MainCleanup ==
    /\ mpc = "cleanup"
    /\ \E failing \in SUBSET Archives(workdir) :
          /\ workdir' = AfterCleanup(workdir, failing)
          /\ Step(CleanupStep(failing))
    /\ mpc' = IF has_updates THEN "commit" ELSE "end"
    /\ UNCHANGED <<synced_data, has_updates, current_version, edition, asset, now,
                   gitfiles, files0, previous>>
    /\ UNCHANGED <<fileVars, platformVars, storeVars, uploadVars, releaseVars,
                   downloadVars, did>>

\* lines 412-413: the status the interpreter exits with once main() has
\* returned; main() catches every Exception (line 394) and calls no sys.exit
ExitStatus == 0

\* lines 286-293: git status --porcelain shows nothing for the two files
NothingToCommit == gitfiles = <<primary, backup>>

\* line 296: git add fails on a path that neither exists nor is tracked
CanStage ==
    /\ Exists(primary) \/ Exists(gitfiles[1])
    /\ Exists(backup) \/ Exists(gitfiles[2])

\* lines 408-410 and commit_and_push: nothing to commit, a commit that is
\* pushed, or a git command that fails (printed, not raised)
MainCommit ==
    /\ mpc = "commit"
    /\ Note("commit_and_push")
    /\ Step(CommitStep(current_version))
    /\ \/ /\ NothingToCommit
          /\ UNCHANGED gitfiles
       \/ /\ ~NothingToCommit
          /\ CanStage
          /\ gitfiles' = <<primary, backup>>
       \/ /\ ~NothingToCommit
          /\ UNCHANGED gitfiles
    /\ mpc' = "end"
    /\ UNCHANGED <<synced_data, has_updates, current_version, edition, asset, now,
                   files0, previous>>
    /\ UNCHANGED <<fileVars, workdir, platformVars, storeVars, uploadVars,
                   releaseVars, downloadVars>>

---------------------------------------------------------------------------
(* Initial states.                                                         *)

\* the first version of the page
FirstVersion == "2024." \o ToString(1)

\* What earlier runs can have left on the platform for a tag: nothing (0),
\* the tag reference alone (1), the release without assets (2), the
\* release with an asset of the archive's name and another asset (3).
Leftovers == 0..3

FilenameOfTag(tag) ==
    FilenameOf(CHOOSE e \in Editions : \E v \in Versions : TagOf(e, v) = tag,
               CHOOSE v \in Versions : \E e \in Editions : TagOf(e, v) = tag)

Platform(k) ==
    /\ releases = IF k >= 2 THEN Tags ELSE {}
    /\ tagrefs = [t \in Tags |-> IF k >= 1 THEN "c1" ELSE NoRef]
    /\ head = "c2"
    /\ assets = [t \in Tags |->
                    IF k = 3 THEN <<OldAsset("notes.txt"), OldAsset(FilenameOfTag(t))>>
                    ELSE <<>>]

StoreIdle ==
    /\ spc = "idle"
    /\ sdata = EmptyDoc
    /\ sold = Absent
    /\ loaded = NotLoaded
    /\ everValid = Valid(primary)

UploadIdle ==
    /\ upc = "idle"
    /\ uargs = [release |-> "", path |-> "", name |-> ""]
    /\ attempt = 0
    /\ uresult = NoAsset
    /\ waits = 0
    /\ uploads = 0
    /\ uassets0 = <<>>

ReleaseIdle ==
    /\ rpc = "idle"
    /\ rtag = ""
    /\ rresult = NoRelease
    /\ rcalls = <<>>
    /\ rtag0 = FALSE

DownloadIdle ==
    /\ dpc = "idle"
    /\ dpath = ""

\* no run came before this one
NoRun == [ran |-> FALSE, reported |-> NoVersion]

MainIdle(pc) ==
    /\ mpc = pc
    /\ synced_data = EmptyDoc
    /\ has_updates = FALSE
    /\ current_version = NoVersion
    /\ edition = "ultimate"
    /\ asset = [e \in Editions |-> Unbound]
    /\ now = MaxClock
    /\ steps = <<>>
    /\ previous = NoRun
    /\ did = {}

---------------------------------------------------------------------------
(* The state store on its own: any sequence of loads and saves, each save  *)
(* possibly cut short by a kill, after which a new process starts.         *)

\* the record of another product that shares the state file
OtherRecord ==
    [SyncRecord(FirstVersion, 1, MaxChunks, MaxChunks) EXCEPT
        !.name = "Pycharm Ultimate"]

\* the documents handed to save_synced_data
StoreDocs ==
    {EmptyDoc} \cup {<<SyncRecord(v, MaxClock, 0, MaxChunks)>> : v \in Versions}
               \cup {<<OtherRecord, SyncRecord(FirstVersion, 1, 0, MaxChunks)>>}

\* the files a run can find: none, a complete document, a damaged one
StoreFiles ==
    {Absent} \cup {Dump(d) : d \in StoreDocs}
             \cup UNION {Truncations(Dump(d)) : d \in StoreDocs}

StoreInit ==
    /\ primary \in StoreFiles
    /\ backup \in StoreFiles
    /\ temp = Absent
    /\ workdir = [f \in Filenames |-> Absent]
    /\ Platform(0)
    /\ StoreIdle /\ UploadIdle /\ ReleaseIdle /\ DownloadIdle /\ MainIdle("idle")
    /\ gitfiles = <<Absent, Absent>>
    /\ files0 = <<Absent, Absent>>

StoreCallSave ==
    /\ spc = "idle"
    /\ \E d \in StoreDocs : sdata' = d
    /\ sold' = primary
    /\ spc' = "open"
    /\ loaded' = NotLoaded
    /\ UNCHANGED <<primary, backup, temp, everValid>>
    /\ UNCHANGED nonStoreVars

StoreCallLoad ==
    /\ spc \in {"idle", "saved", "failed", "crashed"}
    /\ ~loaded.done
    /\ loaded' = [done |-> TRUE, doc |-> load_synced_data(primary, backup)]
    /\ UNCHANGED <<primary, backup, temp, spc, sdata, sold, everValid>>
    /\ UNCHANGED nonStoreVars

StoreReturn ==
    /\ spc \in {"saved", "failed", "crashed"}
    /\ spc' = "idle"
    /\ sold' = Absent
    /\ sdata' = EmptyDoc
    /\ loaded' = NotLoaded
    /\ UNCHANGED <<primary, backup, temp, everValid>>
    /\ UNCHANGED nonStoreVars

StoreNext ==
    \/ StoreCallSave
    \/ StoreCallLoad
    \/ StoreReturn
    \/ SaveOpen
    \/ SaveDump
    \/ SaveBackup
    \/ SaveReplace
    \/ SaveExcept
    \/ Crash

SpecStore == StoreInit /\ [][StoreNext]_vars

---------------------------------------------------------------------------
(* The asset publisher on its own: calls of retry_upload, one after the    *)
(* other, on the releases of the first version.                            *)

UploadInit ==
    /\ primary = Absent /\ backup = Absent /\ temp = Absent
    /\ \E present \in BOOLEAN :
          workdir = [f \in Filenames |-> IF present THEN Body(f) ELSE Absent]
    /\ \E k \in {2, 3} : Platform(k)
    /\ StoreIdle /\ UploadIdle /\ ReleaseIdle /\ DownloadIdle /\ MainIdle("idle")
    /\ gitfiles = <<Absent, Absent>>
    /\ files0 = <<Absent, Absent>>

UploadStart ==
    /\ upc \in {"idle", "done", "raised"}
    /\ \E e \in Editions :
          CallUpload(TagOf(e, FirstVersion), FilenameOf(e, FirstVersion),
                     FilenameOf(e, FirstVersion))
    /\ did' = {}
    /\ UNCHANGED assets
    /\ UNCHANGED nonUploadVars

UploadNext ==
    \/ UploadStart
    \/ UploadTry
    \/ UploadCall
    \/ UploadConflict
    \/ UploadSleep

SpecUpload == UploadInit /\ [][UploadNext]_vars

---------------------------------------------------------------------------
(* The release manager on its own: calls of get_or_create_release on the   *)
(* tags of the first version.                                              *)

ReleaseInit ==
    /\ primary = Absent /\ backup = Absent /\ temp = Absent
    /\ workdir = [f \in Filenames |-> Absent]
    /\ \E k \in Leftovers : Platform(k)
    /\ StoreIdle /\ UploadIdle /\ ReleaseIdle /\ DownloadIdle /\ MainIdle("idle")
    /\ gitfiles = <<Absent, Absent>>
    /\ files0 = <<Absent, Absent>>

ReleaseStart ==
    /\ rpc \in {"idle", "done", "raised"}
    /\ \E e \in Editions : CallRelease(TagOf(e, FirstVersion))
    /\ did' = {}
    /\ UNCHANGED <<releases, tagrefs, head>>
    /\ UNCHANGED nonReleaseVars

ReleaseNext ==
    \/ ReleaseStart
    \/ ReleaseLookup
    \/ ReleaseTagCheck
    \/ ReleaseBranch
    \/ ReleaseCreateBoth
    \/ ReleaseRefetch
    \/ ReleaseCreateDirect
    \/ ReleaseFallback

SpecRelease == ReleaseInit /\ [][ReleaseNext]_vars

---------------------------------------------------------------------------
(* One run of main.                                                        *)

\* the state files a run can find in its checkout
OldDoc(v) == <<SyncRecord(v, 1, MaxChunks, MaxChunks)>>

MainFiles ==
    {Absent} \cup {Dump(OldDoc(v)) : v \in Versions}
             \cup {Dump(<<OtherRecord>> \o OldDoc(FirstVersion))}
             \cup {SubSeq(Dump(OldDoc(FirstVersion)), 1, EntryLen)}

Init ==
    /\ primary \in MainFiles
    /\ backup \in {Absent, Dump(OldDoc(FirstVersion))}
    /\ temp = Absent
    /\ \E stale \in BOOLEAN :
          workdir = [f \in Filenames |->
                        IF stale /\ f = FilenameOf("ultimate", FirstVersion)
                        THEN <<"stale">> ELSE Absent]
    /\ \E k \in Leftovers : Platform(k)
    /\ StoreIdle /\ UploadIdle /\ ReleaseIdle /\ DownloadIdle /\ MainIdle("load")
    /\ gitfiles = <<primary, backup>>
    /\ files0 = <<primary, backup>>

Next ==
    \/ MainLoad
    \/ MainParse
    \/ MainCheck
    \/ MainReleaseReturn
    \/ MainDownloadReturn
    \/ MainUploadReturn
    \/ MainUpdate
    \/ MainSaveReturn
    \/ MainExcept
    \/ MainCleanup
    \/ MainCommit
    \/ ReleaseLookup
    \/ ReleaseTagCheck
    \/ ReleaseBranch
    \/ ReleaseCreateBoth
    \/ ReleaseRefetch
    \/ ReleaseCreateDirect
    \/ ReleaseFallback
    \/ DownloadCheck
    \/ DownloadGet
    \/ DownloadChunk
    \/ DownloadExcept
    \/ UploadTry
    \/ UploadCall
    \/ UploadConflict
    \/ UploadSleep
    \/ SaveOpen
    \/ SaveDump
    \/ SaveBackup
    \/ SaveReplace
    \/ SaveExcept

Spec == Init /\ [][Next]_vars

---------------------------------------------------------------------------
(* A run of main that reports the sync as completed and the run that       *)
(* follows it: in the same directory, or in a fresh checkout of what the   *)
(* first run pushed.                                                       *)

\* the version a run has reported as synced (line 392), if any
Reported == IF InSteps(CompletedStep) THEN current_version ELSE NoVersion

\* the process has ended after reporting the sync as completed, and main
\* is started again
MainNewRun ==
    /\ mpc = "end"
    /\ Reported # NoVersion
    /\ ~previous.ran
    /\ previous' = [ran |-> TRUE, reported |-> Reported]
    /\ \/ UNCHANGED <<primary, backup, temp, workdir>>
       \/ /\ primary' = gitfiles[1]
          /\ backup' = gitfiles[2]
          /\ temp' = Absent
          /\ workdir' = [f \in Filenames |-> Absent]
    /\ files0' = <<primary', backup'>>
    /\ mpc' = "load"
    /\ synced_data' = EmptyDoc
    /\ has_updates' = FALSE
    /\ current_version' = NoVersion
    /\ edition' = "ultimate"
    /\ asset' = [e \in Editions |-> Unbound]
    /\ steps' = <<>>
    /\ did' = {}
    /\ spc' = "idle" /\ sdata' = EmptyDoc /\ sold' = Absent /\ loaded' = NotLoaded
    /\ everValid' = Valid(primary')
    /\ uargs' = [release |-> "", path |-> "", name |-> ""]
    /\ rtag' = "" /\ rresult' = NoRelease
    /\ dpath' = ""
    /\ UNCHANGED <<upc, attempt, uresult, waits, uploads, uassets0>>
    /\ UNCHANGED <<rpc, rcalls, rtag0, dpc>>
    /\ UNCHANGED <<platformVars, now, gitfiles>>

\* The first run starts in a clean checkout, with no state file or with the
\* record of the first version; the platform has the tag references and no
\* release (the second run finds what the first has published).
RunsInit ==
    /\ primary \in {Absent, Dump(OldDoc(FirstVersion))}
    /\ backup = Absent
    /\ temp = Absent
    /\ workdir = [f \in Filenames |-> Absent]
    /\ Platform(1)
    /\ StoreIdle /\ UploadIdle /\ ReleaseIdle /\ DownloadIdle /\ MainIdle("load")
    /\ gitfiles = <<primary, backup>>
    /\ files0 = <<primary, backup>>

RunsNext ==
    \/ MainNewRun
    \/ MainLoad
    \/ MainParse
    \/ MainCheck
    \/ MainReleaseReturn
    \/ MainDownloadReturn
    \/ MainUploadReturn
    \/ MainUpdate
    \/ MainSaveReturn
    \/ MainExcept
    \/ MainCleanup
    \/ MainCommit
    \/ ReleaseLookup
    \/ ReleaseTagCheck
    \/ ReleaseBranch
    \/ ReleaseCreateBoth
    \/ ReleaseRefetch
    \/ ReleaseCreateDirect
    \/ ReleaseFallback
    \/ DownloadCheck
    \/ DownloadGet
    \/ DownloadChunk
    \/ DownloadExcept
    \/ UploadTry
    \/ UploadCall
    \/ UploadConflict
    \/ UploadSleep
    \/ SaveOpen
    \/ SaveDump
    \/ SaveBackup
    \/ SaveReplace
    \/ SaveExcept

SpecRuns == RunsInit /\ [][RunsNext]_vars

---------------------------------------------------------------------------
(* Claims about the state store, checked under SpecStore.                  *)

InSave == Saving \/ Returned \/ spc = "crashed"

\* C3 (as stated): at every point of save_synced_data(D) that found a
\* complete document in the primary file, kills and errors included, the
\* primary file exists and holds the old document or the new document D.
C3_PrimaryOldOrNew ==
    (InSave /\ Valid(sold)) => (primary = sold \/ primary = Dump(sdata))

\* C4: once the primary file has held a complete document, the primary
\* file or the backup file holds a complete document in every state, for
\* any sequence of saves, failed saves and kills.
C4_NeverBothInvalid == everValid => (Valid(primary) \/ Valid(backup))

\* a save was killed between the two renames: only the backup is complete
C4_Witness ==
    spc = "crashed" /\ everValid /\ ~Exists(primary) /\ Valid(backup)

\* C5: load_synced_data returns the primary file's document when that file
\* is complete, the backup's document when the primary file exists, is
\* damaged and the backup is complete, and the empty default when neither
\* file is complete.
C5_LoadPrefersPrimary ==
    loaded.done =>
        /\ Valid(primary) => loaded.doc = Parse(primary)
        /\ (Exists(primary) /\ ~ParseOk(primary) /\ Valid(backup))
              => loaded.doc = Parse(backup)
        /\ (~Valid(primary) /\ ~Valid(backup)) => loaded.doc = EmptyDoc

\* a load that fell back to a backup holding a product entry
C5_Witness ==
    /\ loaded.done
    /\ Exists(primary) /\ ~ParseOk(primary) /\ Valid(backup)
    /\ loaded.doc # EmptyDoc

\* C6: a load_synced_data that follows a save_synced_data(D) which ran to its
\* end without an error returns D, whatever the two files held before.
C6_SaveLoadRoundTrip ==
    (loaded.done /\ spc = "saved") => loaded.doc = sdata

\* a save of a product entry over a damaged primary file, then a load
C6_Witness ==
    /\ loaded.done /\ spc = "saved"
    /\ sdata # EmptyDoc
    /\ Exists(sold) /\ ~ParseOk(sold)

\* C19 (as stated): when save_synced_data(D_new) found a complete document
\* D_old in the primary file and was cut short, by a kill at any step or by
\* a file operation that raised, the load_synced_data that follows returns
\* D_old or D_new.
C19_RecoversOldOrNew ==
    (loaded.done /\ spc \in {"crashed", "failed"} /\ Valid(sold)) =>
        loaded.doc \in {Parse(sold), sdata}

---------------------------------------------------------------------------
(* Claims about the asset publisher, checked under SpecUpload.             *)

UploadEnded == upc \in {"done", "raised"}
UploadSucceeded == upc = "done" /\ uresult # NoAsset

\* C7 (as stated): when no attempt uploads the file, retry_upload makes
\* exactly RETRY_COUNT attempts with RETRY_COUNT - 1 waits between them and
\* ends by returning None.
C7_RetryCountThenNone ==
    (UploadEnded /\ ~UploadSucceeded) =>
        /\ upc = "done" /\ uresult = NoAsset
        /\ attempt = RETRY_COUNT
        /\ waits = RETRY_COUNT - 1

\* C18 (as stated): every call of retry_upload ends by a return, of the
\* uploaded asset or of None, whatever fails in listing the assets, deleting
\* an asset or uploading, the delete of the conflict handler included.
C18_AlwaysReturns == UploadEnded => upc = "done"

\* C8: whenever retry_upload returns an asset, the release holds exactly
\* one asset of that name, its content is the file's content, and it is the
\* asset returned; also for a release that held an asset of the name and
\* after failed deletes and upload conflicts.
C8_OneAssetWithNewContent ==
    UploadSucceeded =>
        LET list == assets[uargs.release] IN
        /\ Cardinality(Named(list, uargs.name)) = 1
        /\ \A k \in Named(list, uargs.name) :
              /\ list[k].content = workdir[uargs.path]
              /\ list[k] = uresult

\* an asset of the name was there, an attempt failed, a later one succeeded
C8_Witness ==
    /\ UploadSucceeded
    /\ Named(uassets0, uargs.name) # {}
    /\ attempt >= 1
    /\ uploads >= 2

---------------------------------------------------------------------------
(* Claims about the release manager, checked under SpecRelease.            *)

ReleaseEnded == rpc \in {"done", "raised"}
Calls(op) == {k \in 1..Len(rcalls) : rcalls[k].op = op}
Called(op) == Calls(op) # {}
LookupOut == rcalls[1].out
TagCheckOut == rcalls[CHOOSE k \in Calls("get_git_ref_tag") : TRUE].out
NoCallFailed == \A k \in 1..Len(rcalls) : rcalls[k].out \in {"ok", "404"}

\* C9 (as stated): an existing release is returned without a creation
\* call; after a not-found lookup, tag and release are created together
\* exactly when the tag reference did not exist, and a release is created
\* directly exactly when it did.
C9_CreationFollowsTag ==
    ReleaseEnded =>
        /\ LookupOut = "ok" => \A op \in CreationOps : ~Called(op)
        /\ LookupOut = "404" =>
              /\ Called("create_git_tag_and_release") <=> ~rtag0
              /\ (Called("create_release") \/ Called("fallback")) <=> rtag0

\* C9 (amended): an existing release is returned without a creation call.
\* After a not-found lookup, create_git_tag_and_release is called only
\* after the tag lookup raised a GithubException, and with the default
\* branch's commit; the direct create_release outside the fallback is
\* called only after the tag lookup returned the reference of an existing
\* tag; and when no call fails, the first happens exactly when the tag
\* reference did not exist, the second exactly when it did, with no
\* fallback.
C9_CreationFollowsTagLookup ==
    ReleaseEnded =>
        /\ LookupOut = "ok" =>
              /\ \A op \in CreationOps : ~Called(op)
              /\ rpc = "done" /\ rresult = rtag
        /\ LookupOut = "404" =>
              /\ Called("create_git_tag_and_release") =>
                    /\ TagCheckOut \in {"404", "github_error"}
                    /\ \A k \in Calls("create_git_tag_and_release") :
                          rcalls[k].sha = head
              /\ Called("create_release") => (TagCheckOut = "ok" /\ rtag0)
              /\ NoCallFailed =>
                    /\ Called("create_git_tag_and_release") <=> ~rtag0
                    /\ Called("create_release") <=> rtag0
                    /\ ~Called("fallback")
                    /\ rpc = "done" /\ rresult = rtag /\ rtag \in releases

\* a missing tag was created with its release at the branch's commit
C9_Witness ==
    /\ rpc = "done"
    /\ ~rtag0
    /\ NoCallFailed
    /\ Called("create_git_tag_and_release")
    /\ tagrefs[rtag] = head

\* the calls of the creation path that failed; a 404 of the tag lookup is
\* its answer "no such tag"
FailedAt(k, outs) ==
    /\ k > 1
    /\ rcalls[k].op # "fallback"
    /\ rcalls[k].out \in outs

\* C10 (as stated): any failure in the creation path, the tag check
\* included, triggers exactly one fallback create_release; the error
\* reaches the caller only when the fallback fails too, and no creation
\* call follows the fallback.
C10_AnyFailureOneFallback ==
    (ReleaseEnded /\ LookupOut = "404") =>
        /\ (\E k \in 1..Len(rcalls) : FailedAt(k, {"error", "github_error"}))
              <=> Cardinality(Calls("fallback")) = 1
        /\ Cardinality(Calls("fallback")) <= 1
        /\ rpc = "raised" <=>
              \E k \in Calls("fallback") : rcalls[k].out = "error"
        /\ \A k \in Calls("fallback") : k = Len(rcalls)

\* C10 (amended): a GithubException of the tag check is taken as "no such
\* tag" and leads to the creation of tag and release; any other failure
\* in the creation path (another error of the tag check, reading the
\* branch, creating tag and release, the re-fetch, the direct creation)
\* triggers exactly one fallback create_release; the error reaches the
\* caller only when the fallback fails too, and no call follows the
\* fallback.
C10_EscapingFailureOneFallback ==
    /\ Cardinality(Calls("fallback")) <= 1
    /\ (ReleaseEnded /\ LookupOut = "404") =>
        /\ (\E k \in 1..Len(rcalls) : FailedAt(k, {"error"}))
              <=> Cardinality(Calls("fallback")) = 1
        /\ rpc = "raised" <=>
              \E k \in Calls("fallback") : rcalls[k].out = "error"
        /\ \A k \in Calls("fallback") : k = Len(rcalls)

\* the creation of tag and release failed, the fallback created the release
C10_Witness ==
    /\ rpc = "done"
    /\ \E k \in Calls("create_git_tag_and_release") : rcalls[k].out = "error"
    /\ \E k \in Calls("fallback") : rcalls[k].out = "ok"
    /\ rtag \in releases

---------------------------------------------------------------------------
(* Claims about main, checked under Spec.                                  *)

\* the version of the product in the primary file
PersistedVersion ==
    IF Valid(primary) THEN StoredVersion(Parse(primary)) ELSE NoVersion

\* the run found a page version other than the stored one
NewVersion ==
    /\ loaded.done
    /\ current_version # NoVersion
    /\ StoredVersion(loaded.doc) # current_version

\* the run found the stored version on the page
SameVersion ==
    /\ loaded.done
    /\ current_version # NoVersion
    /\ StoredVersion(loaded.doc) = current_version

\* C1 (as stated): in a run that finds a new page version V, the primary
\* file's version for the product becomes V only if retry_upload returned
\* an asset for the ultimate and for the community edition.
C1_VersionNeedsBothAssets ==
    (NewVersion /\ PersistedVersion = current_version) =>
        (asset["ultimate"] # NoAsset /\ asset["community"] # NoAsset)

\* C2: in a run that finds the stored version on the page there is no
\* download, no release or asset call, no save and no commit call, and
\* the state file, its backup and the temp file are as the run found them.
C2_SkipHasNoEffect ==
    (SameVersion /\ mpc \notin {"load", "parse", "check"}) =>
        /\ did = {}
        /\ <<primary, backup>> = files0
        /\ temp = Absent
        /\ gitfiles = files0

\* a run that skipped and reached its end
C2_Witness ==
    /\ SameVersion
    /\ mpc = "end"
    /\ Exists(primary)


\* the run has left the finally block's cleanup loop
PastCleanup == mpc \in {"commit", "end"}

Aborted == InSteps(ExceptStepOfMain)

\* C12 (as stated): commit_and_push is invoked only in a run that called
\* save_synced_data with the updated record, and never in a run that an
\* error aborted.
C12_CommitOnlyAfterSave ==
    "commit_and_push" \in did => ("save" \in did /\ ~Aborted)

\* C13 (as stated): a run ends with a non-zero exit status exactly when an
\* error aborted it.
C13_ExitStatusTellsAbort ==
    mpc = "end" => (ExitStatus # 0 <=> Aborted)

\* the entries of steps after the except clause's
AfterAbort ==
    {steps[j] : j \in {i \in 1..Len(steps) :
                          \E k \in 1..(i - 1) : steps[k] = ExceptStepOfMain}}

\* the last call main made before the except clause ran
AbortedCall ==
    LET k == CHOOSE i \in 1..Len(steps) : steps[i] = ExceptStepOfMain
    IN  IF k = 1 THEN "" ELSE steps[k - 1]

\* C14: once an error has aborted a run, the only steps that follow are
\* the cleanup and the commit step: no release call, download, upload or
\* save; save_synced_data has not been called, and the stored record, the
\* state file, its backup and the platform stay as they are.
C14_AbortStopsTheRun ==
    /\ [](Aborted =>
            /\ AfterAbort \subseteq {"cleanup", "cleanup, os.remove failed",
                                      CommitStep(current_version)}
            /\ ~InSteps(SaveStep) /\ "save" \notin did
            /\ spc = "idle" /\ rpc = "idle" /\ dpc = "idle" /\ upc = "idle"
            /\ synced_data = loaded.doc
            /\ <<primary, backup>> = files0 /\ temp = Absent)
    /\ [][Aborted => /\ UNCHANGED <<fileVars, platformVars, synced_data>>
                     /\ did' \subseteq did \cup {"commit_and_push"}]_vars

\* a download error in the community edition aborted the run after the
\* ultimate archive was published
C14_Witness ==
    /\ mpc = "end"
    /\ Aborted
    /\ AbortedCall = DownloadStep(FilenameOf("community", current_version))
    /\ asset["ultimate"] \notin {NoAsset, Unbound}
    /\ Exists(files0[1])

\* a run that found a new version and in which every step succeeded
AllSucceeded ==
    /\ NewVersion
    /\ ~Aborted
    /\ asset["ultimate"] \notin {NoAsset, Unbound}
    /\ asset["community"] \notin {NoAsset, Unbound}
    /\ spc = "saved"

\* the steps of such a run for page version v, in the order of the claim
StepsInOrder(v, cleanup) ==
    << "get_or_create_release idea-ultimate-" \o v,
       "download_file ideaIU-" \o v \o ".tar.gz",
       "retry_upload idea-ultimate-" \o v \o " ideaIU-" \o v \o ".tar.gz"
                                        \o " ideaIU-" \o v \o ".tar.gz",
       "get_or_create_release idea-community-" \o v,
       "download_file ideaIC-" \o v \o ".tar.gz",
       "retry_upload idea-community-" \o v \o " ideaIC-" \o v \o ".tar.gz"
                                         \o " ideaIC-" \o v \o ".tar.gz",
       "save_synced_data",
       "completed",
       cleanup,
       "commit_and_push " \o v >>

\* C16: a run that found a new page version V and in which every step
\* succeeded has made its calls in the order get-or-create release,
\* download, publish for ultimate and then for community, with the tags
\* <product>-ultimate-V and <product>-community-V, then saved; at its end
\* the stored version is V and commit_and_push was called with V.
C16_StepsInOrder ==
    (mpc = "end" /\ AllSucceeded) =>
        /\ \E c \in {"cleanup", "cleanup, os.remove failed"} :
              steps = StepsInOrder(current_version, c)
        /\ PersistedVersion = current_version
        /\ StoredVersion(synced_data) = current_version

\* such a run, for a product that had another version stored
C16_Witness ==
    /\ mpc = "end"
    /\ AllSucceeded
    /\ StoredVersion(loaded.doc) \in Versions
    /\ "commit_and_push" \in did

\* the steps of the community edition
CommunitySteps ==
    LET tag == TagOf("community", current_version)
        file == FilenameOf("community", current_version)
    IN  <<ReleaseStep(tag), DownloadStep(file), UploadStep(tag, file, file)>>

\* the record of the product in a document has the fields of both editions
RecordOfBoth(doc, v) ==
    \E k \in 1..Len(doc) :
        /\ doc[k].name = product_name
        /\ doc[k].version = v
        /\ doc[k].ultimate.tag = "idea-ultimate-" \o v
        /\ doc[k].ultimate.asset = "ideaIU-" \o v \o ".tar.gz"
        /\ doc[k].community.tag = "idea-community-" \o v
        /\ doc[k].community.asset = "ideaIC-" \o v \o ".tar.gz"

\* C17: once retry_upload has returned None for the ultimate edition, main
\* has gone on to get_or_create_release for the community edition; the run
\* is aborted only by an error of a community step, and when it is not, it
\* calls save_synced_data with a record that has the tag and asset fields
\* of both editions.
C17_NoneDoesNotAbort ==
    asset["ultimate"] = NoAsset =>
        /\ InSteps(CommunitySteps[1])
        /\ Aborted => \E k \in 1..3 : AbortedCall = CommunitySteps[k]
        /\ (PastCleanup /\ ~Aborted) =>
              /\ InSteps(CommunitySteps[2]) /\ InSteps(CommunitySteps[3])
              /\ InSteps(SaveStep)
              /\ sdata = synced_data
              /\ RecordOfBoth(sdata, current_version)

\* the ultimate upload returned None, the community archive was published
\* and the record saved
C17_Witness ==
    /\ asset["ultimate"] = NoAsset
    /\ asset["community"] \notin {NoAsset, Unbound}
    /\ mpc = "end"
    /\ spc = "saved"
    /\ RecordOfBoth(Parse(primary), current_version)

---------------------------------------------------------------------------
(* Claims about download_file, checked under Spec.                         *)

---------------------------------------------------------------------------
(* Claims about two runs of main, checked under SpecRuns.                  *)

\* C20 (as stated): a run that follows a run which reported the sync of
\* version V as completed, and finds V on the page, takes the skip path:
\* no download, no upload, no commit step, also when the save of the
\* first run failed.
C20_SecondRunSkips ==
    (previous.ran /\ previous.reported # NoVersion
                  /\ current_version = previous.reported) =>
        /\ ~has_updates
        /\ did \cap {"download", "upload_asset", "commit_and_push"} = {}

=============================================================================
